---- MODULE Spec2Model ----
(***************************************************************************)
(* H5SparseArray (src/src/filebackedarray/H5Sparse.py): an array object    *)
(* backed by a compressed-sparse matrix stored in an H5 file.              *)
(*                                                                         *)
(* State: the file on disk (what it holds, and the (data, indices, indptr) *)
(* triple of the stored matrix), the object's attributes (_h5file,         *)
(* _dataset_info), where the object is in its life (pc), the outcome of    *)
(* the extraction call in progress (res), and the bookkeeping of __del__.  *)
(* Operations: __init__ (Construct), __getitem__ (GetItem, with the caller *)
(* taking the returned value in Return) and __del__ (Del).                 *)
(*                                                                         *)
(* utils/h5utils.py (_check_indices, _slice_h5_sparse, infer_h5_dataset)   *)
(* is not among the sources; those three are modelled from the design      *)
(* document (sections 4.1 to 4.3) and from the way H5Sparse.py calls them. *)
(***************************************************************************)
EXTENDS Integers, Sequences, FiniteSets, TLC

\* Bounds of the model.
NRows == 2
NCols == 3
MaxStep == 2
MaxDels == 2

\* ------------------------------------------------------------------------
\* The reference matrix and its compressed form on disk.

RowIdx == 0 .. (NRows - 1)
ColIdx == 0 .. (NCols - 1)

\* The value stored at (r, c): distinct per position, never zero.
CellValue(r, c) == r * NCols + c + 1

\* Reference matrices: each row is empty, full, or stores its even or its odd
\* columns only, so that empty rows, empty columns, full and staggered rows
\* all occur.
RowPatterns == {"empty", "full", "even", "odd"}

StoredAt(pattern, c) ==
    CASE pattern = "empty" -> FALSE
      [] pattern = "full"  -> TRUE
      [] pattern = "even"  -> c % 2 = 0
      [] pattern = "odd"   -> c % 2 = 1

PatternMatrix(pat) ==
    [rc \in RowIdx \X ColIdx |->
        IF StoredAt(pat[rc[1]], rc[2]) THEN CellValue(rc[1], rc[2]) ELSE 0]

Matrices == {PatternMatrix(pat) : pat \in [RowIdx -> RowPatterns]}

SparseFormats == {"csr_matrix", "csc_matrix"}

\* Extent of the compressed (primary) and of the other (secondary) axis.
PrimaryExtent(format, shape) == IF format = "csr_matrix" THEN shape[1] ELSE shape[2]
SecondaryExtent(format, shape) == IF format = "csr_matrix" THEN shape[2] ELSE shape[1]

\* Entry of a dense matrix addressed by (primary, secondary).
EntryAt(ref, format, p, s) ==
    IF format = "csr_matrix" THEN ref[<<p, s>>] ELSE ref[<<s, p>>]

\* Secondary positions of the stored (non-zero) entries of primary element p.
StoredIndices(ref, format, shape, p) ==
    SelectSeq([i \in 1 .. SecondaryExtent(format, shape) |-> i - 1],
              LAMBDA s : EntryAt(ref, format, p, s) # 0)

StoredData(ref, format, shape, p) ==
    LET idx == StoredIndices(ref, format, shape, p)
    IN  [i \in 1 .. Len(idx) |-> EntryAt(ref, format, p, idx[i])]

\* Concatenation of line[0], ..., line[n-1].
RECURSIVE ConcatLines(_, _)
ConcatLines(line, n) ==
    IF n = 0 THEN <<>> ELSE ConcatLines(line, n - 1) \o line[n - 1]

\* scipy's tocsr()/tocsc() followed by the test's _mockup: the three
\* datasets data, indices, indptr of the group.
Compress(ref, format, shape) ==
    LET n == PrimaryExtent(format, shape)
        idxLine == [p \in 0 .. (n - 1) |-> StoredIndices(ref, format, shape, p)]
        datLine == [p \in 0 .. (n - 1) |-> StoredData(ref, format, shape, p)]
    IN  [data    |-> ConcatLines(datLine, n),
         indices |-> ConcatLines(idxLine, n),
         indptr  |-> [i \in 1 .. (n + 1) |-> Len(ConcatLines(idxLine, i - 1))]]

EmptyStore == [data |-> <<>>, indices |-> <<>>, indptr |-> <<0>>]

\* ------------------------------------------------------------------------
\* Axis selectors.

\* range(start, stop, step) as the list of its indices.
RECURSIVE Range(_, _, _)
Range(start, stop, step) ==
    IF start >= stop THEN <<>> ELSE <<start>> \o Range(start + step, stop, step)

NoneSel == [kind |-> "none", idx |-> <<>>]
ListSel(s) == [kind |-> "list", idx |-> s]
\* slice(0): the slice [None:0], which selects nothing.
SliceZero == [kind |-> "slice", idx |-> Range(0, 0, 1)]

\* The selections a caller passes for an axis of extent n: contiguous and
\* strided ranges, those reaching index n (out of bounds) included.
AxisSelections(n) ==
    {ListSel(Range(a, b, s)) : a \in 0 .. n, b \in 0 .. (n + 1), s \in 1 .. MaxStep}

\* The ranges [0, b) among them.
PrefixSelections(n) == {ListSel(Range(0, b, 1)) : b \in 0 .. (n + 1)}

InBounds(idx, n) == \A i \in 1 .. Len(idx) : idx[i] >= 0 /\ idx[i] < n

\* The selector tuples handed to __getitem__: (), (P,), (P, S), (P, None)
\* and three-element tuples (P, S, T) (of these, the ones whose P and S are
\* ranges [0, b)).
ArgTuples ==
    {<<>>}
    \cup {<<p>> : p \in AxisSelections(NRows)}
    \cup {<<p, s>> : p \in AxisSelections(NRows),
                     s \in AxisSelections(NCols) \cup {NoneSel}}
    \cup {<<p, s, t>> : p \in PrefixSelections(NRows),
                        s \in PrefixSelections(NCols) \cup {NoneSel},
                        t \in {ListSel(<<0>>)}}

\* ------------------------------------------------------------------------
\* Compressed blocks held in memory, and the helpers of utils/h5utils.py.

NoBlock == [format |-> "none", shape |-> <<0, 0>>,
            data |-> <<>>, indices |-> <<>>, indptr |-> <<0>>]

\* _check_indices(sel): called with the selection alone (no axis extent), it
\* validates the form of the selection and hands it back.
CheckIndices(sel) ==
    IF sel.kind \in {"list", "slice"}
    THEN [err |-> "none", sel |-> [kind |-> sel.kind, idx |-> sel.idx]]
    ELSE [err |-> "TypeError", sel |-> NoneSel]

\* Maximal contiguous runs <<lo, hi>> of an ordered index list.
RECURSIVE Runs(_)
Runs(P) ==
    IF P = <<>> THEN <<>>
    ELSE LET rest == Runs(Tail(P))
         IN  IF rest # <<>> /\ Head(rest)[1] = Head(P) + 1
             THEN <<<<Head(P), Head(rest)[2]>>>> \o Tail(rest)
             ELSE <<<<Head(P), Head(P)>>>> \o rest

\* One physical read pair: indptr[lo .. hi+1], then data and indices over the
\* element range it delimits.
ReadRun(store, run) ==
    LET ptr == SubSeq(store.indptr, run[1] + 1, run[2] + 2)
        first == ptr[1]
        last == ptr[Len(ptr)]
    IN  [data    |-> SubSeq(store.data, first + 1, last),
         indices |-> SubSeq(store.indices, first + 1, last),
         lengths |-> [i \in 1 .. (Len(ptr) - 1) |-> ptr[i + 1] - ptr[i]]]

RECURSIVE ReadRuns(_, _)
ReadRuns(store, runs) ==
    IF runs = <<>> THEN [data |-> <<>>, indices |-> <<>>, lengths |-> <<>>]
    ELSE LET h == ReadRun(store, Head(runs))
             t == ReadRuns(store, Tail(runs))
         IN  [data    |-> h.data \o t.data,
              indices |-> h.indices \o t.indices,
              lengths |-> h.lengths \o t.lengths]

RECURSIVE SumPrefix(_, _)
SumPrefix(lengths, n) ==
    IF n = 0 THEN 0 ELSE SumPrefix(lengths, n - 1) + lengths[n]

\* A fresh indptr: the per-element lengths accumulated from 0.
Accumulate(lengths) == [i \in 1 .. (Len(lengths) + 1) |-> SumPrefix(lengths, i - 1)]

\* _slice_h5_sparse(dataset, dataset_info, idx): the primary-axis selection.
\* The selection is checked against the primary extent before anything is
\* read; an empty selection has no run and reads nothing; each run costs one
\* read pair, which fails when the file handle has been closed.
SliceH5Sparse(store, info, handle, P) ==
    LET runs == Runs(P)
        got == ReadRuns(store, runs)
    IN  IF ~InBounds(P, PrimaryExtent(info.format, info.shape))
        THEN [err |-> "IndexOutOfBounds", reads |-> 0, block |-> NoBlock]
        ELSE IF runs # <<>> /\ handle # "open"
        THEN [err |-> "UseAfterClose", reads |-> 0, block |-> NoBlock]
        ELSE [err |-> "none", reads |-> Len(runs),
              block |-> [format  |-> info.format,
                         shape   |-> IF info.format = "csr_matrix"
                                     THEN <<Len(P), info.shape[2]>>
                                     ELSE <<info.shape[1], Len(P)>>,
                         data    |-> got.data,
                         indices |-> got.indices,
                         indptr  |-> Accumulate(got.lengths)]]

\* The stored secondary positions, and values, of primary element p of a block.
BlockLineIndices(block, p) ==
    SubSeq(block.indices, block.indptr[p + 1] + 1, block.indptr[p + 2])
BlockLineData(block, p) ==
    SubSeq(block.data, block.indptr[p + 1] + 1, block.indptr[p + 2])

\* Value of a block at (primary p, secondary s); 0 when nothing is stored.
BlockValue(block, p, s) ==
    LET idx == BlockLineIndices(block, p)
        dat == BlockLineData(block, p)
        hit == {k \in 1 .. Len(idx) : idx[k] = s}
    IN  IF hit = {} THEN 0 ELSE dat[CHOOSE k \in hit : TRUE]

\* scipy's mat[:, S] on a csr matrix and mat[S, :] on a csc matrix: the
\* index list S applied to the axis that is not compressed. An index outside
\* the axis raises IndexError; no file is read.
SecondarySelect(block, S) ==
    LET n == PrimaryExtent(block.format, block.shape)
        keep(p) == SelectSeq([j \in 1 .. Len(S) |-> j - 1],
                             LAMBDA j : BlockValue(block, p, S[j + 1]) # 0)
        idxLine == [p \in 0 .. (n - 1) |-> keep(p)]
        datLine == [p \in 0 .. (n - 1) |->
                       [i \in 1 .. Len(keep(p)) |->
                           BlockValue(block, p, S[keep(p)[i] + 1])]]
    IN  IF ~InBounds(S, SecondaryExtent(block.format, block.shape))
        THEN [err |-> "IndexOutOfBounds", block |-> NoBlock]
        ELSE [err |-> "none",
              block |-> [format  |-> block.format,
                         shape   |-> IF block.format = "csr_matrix"
                                     THEN <<block.shape[1], Len(S)>>
                                     ELSE <<Len(S), block.shape[2]>>,
                         data    |-> ConcatLines(datLine, n),
                         indices |-> ConcatLines(idxLine, n),
                         indptr  |-> [i \in 1 .. (n + 1) |->
                                         Len(ConcatLines(idxLine, i - 1))]]]

\* toarray(): the dense rows of a block.
ToDense(block) ==
    [i \in 1 .. block.shape[1] |->
        [j \in 1 .. block.shape[2] |->
            IF block.format = "csr_matrix"
            THEN BlockValue(block, i - 1, j - 1)
            ELSE BlockValue(block, j - 1, i - 1)]]

\* The reference matrix restricted to rows P and columns S (y[P][:, S]).
RefSlice(ref, P, S) ==
    [i \in 1 .. Len(P) |-> [j \in 1 .. Len(S) |-> ref[<<P[i], S[j]>>]]]

\* ------------------------------------------------------------------------
\* State.

VARIABLES
    file,      \* the H5 file at path: what it holds, the reference matrix, the triple
    h5file,    \* self._h5file: "unset" (attribute never assigned), "open", "closed"
    info,      \* self._dataset_info: format, shape, dtype
    pc,        \* "new" before __init__, "ready" once constructed, "failed" if __init__ raised
    initErr,   \* the error __init__ raised, "none" otherwise
    res,       \* the outcome of the __getitem__ call the caller has not yet taken
    dels,      \* number of __del__ calls made
    releases,  \* number of times an open handle was closed
    delErr,    \* the error raised by the latest __del__, "none" otherwise
    pinned     \* an extraction call remembered for comparison with later ones

vars == <<file, h5file, info, pc, initErr, res, dels, releases, delErr, pinned>>

NoInfo == [format |-> "none", shape |-> <<0, 0>>, dtype |-> "none"]

FileKinds == {"missing", "nogroup", "noinfer", "dense"} \cup SparseFormats

ZeroMatrix == [rc \in RowIdx \X ColIdx |-> 0]

\* The files a path may name: no file, a file without the group, a group of no
\* recognisable layout, a dense dataset, or a csr/csc group holding a matrix.
Files ==
    {[kind |-> k, shape |-> <<NRows, NCols>>, ref |-> ZeroMatrix, store |-> EmptyStore] :
        k \in FileKinds \ SparseFormats}
    \cup {[kind |-> k, shape |-> <<NRows, NCols>>, ref |-> m,
           store |-> Compress(m, k, <<NRows, NCols>>)] :
        k \in SparseFormats, m \in Matrices}

\* ------------------------------------------------------------------------
\* __init__

\* infer_h5_dataset(dataset): the layout tag, shape and scalar type found in
\* the group, or UnsupportedLayout when the group matches no layout.
InferH5Dataset(f) ==
    IF f.kind = "noinfer"
    THEN [err |-> "UnsupportedLayout", info |-> NoInfo]
    ELSE [err |-> "none",
          info |-> [format |-> f.kind, shape |-> f.shape, dtype |-> "float64"]]

\* __init__ without the test of the inferred format.
ConstructNoFormatCheck(f) ==
    IF f.kind = "missing"
    THEN [h5file |-> "unset", info |-> NoInfo, err |-> "OSError"]
    ELSE IF f.kind = "nogroup"
    THEN [h5file |-> "open", info |-> NoInfo, err |-> "KeyError"]
    ELSE LET inf == InferH5Dataset(f)
         IN  IF inf.err # "none"
             THEN [h5file |-> "open", info |-> NoInfo, err |-> inf.err]
             ELSE [h5file |-> "open", info |-> inf.info, err |-> "none"]

\* __init__: open the file, look the group up, infer the layout, and refuse
\* anything that is not csr or csc. Each attribute assigned before the
\* failing line stays assigned.
ConstructOutcome(f) ==
    IF f.kind = "missing"
    THEN [h5file |-> "unset", info |-> NoInfo, err |-> "OSError"]
    ELSE IF f.kind = "nogroup"
    THEN [h5file |-> "open", info |-> NoInfo, err |-> "KeyError"]
    ELSE LET inf == InferH5Dataset(f)
         IN  IF inf.err # "none"
             THEN [h5file |-> "open", info |-> NoInfo, err |-> inf.err]
             ELSE IF inf.info.format \notin {"csr_matrix", "csc_matrix"}
             THEN [h5file |-> "open", info |-> inf.info, err |-> "ValueError"]
             ELSE [h5file |-> "open", info |-> inf.info, err |-> "none"]

Construct ==
    /\ pc = "new"
    /\ LET out == ConstructOutcome(file)
       IN  /\ h5file' = out.h5file
           /\ info' = out.info
           /\ initErr' = out.err
           /\ pc' = IF out.err = "none" THEN "ready" ELSE "failed"
    /\ UNCHANGED <<file, res, dels, releases, delErr, pinned>>

\* ------------------------------------------------------------------------
\* __getitem__

Raised(e, reads, checked) ==
    [status |-> "raised", err |-> e, block |-> NoBlock,
     reads |-> reads, normalized |-> checked]
Returned(block, reads, checked) ==
    [status |-> "returned", err |-> "none", block |-> block,
     reads |-> reads, normalized |-> checked]

\* The csr branch: slice the rows from the file, then the columns in memory.
GetItemCsr(inf, store, handle, rowIndices, colIndices, checked) ==
    LET mat == SliceH5Sparse(store, inf, handle, rowIndices.idx)
        cut == SecondarySelect(mat.block, colIndices.idx)
    IN  IF mat.err # "none" THEN Raised(mat.err, mat.reads, checked)
        ELSE IF colIndices.kind # "none"
        THEN IF cut.err # "none"
             THEN Raised(cut.err, mat.reads, checked)
             ELSE Returned(cut.block, mat.reads, checked)
        ELSE Returned(mat.block, mat.reads, checked)

\* The csc branch with the row selection handed to the file slicing.
GetItemCscRowsFirst(inf, store, handle, rowIndices, colIndices, checked) ==
    LET cols == IF colIndices.kind = "none" THEN SliceZero ELSE colIndices
        mat == SliceH5Sparse(store, inf, handle, rowIndices.idx)
        cut == SecondarySelect(mat.block, cols.idx)
    IN  IF mat.err # "none" THEN Raised(mat.err, mat.reads, checked)
        ELSE IF cut.err # "none" THEN Raised(cut.err, mat.reads, checked)
        ELSE Returned(cut.block, mat.reads, checked)

\* The csc branch: an absent column selection becomes slice(0); slice the
\* columns from the file, then the rows in memory.
GetItemCsc(inf, store, handle, rowIndices, colIndices, checked) ==
    LET cols == IF colIndices.kind = "none" THEN SliceZero ELSE colIndices
        mat == SliceH5Sparse(store, inf, handle, cols.idx)
        cut == SecondarySelect(mat.block, rowIndices.idx)
    IN  IF mat.err # "none" THEN Raised(mat.err, mat.reads, checked)
        ELSE IF cut.err # "none" THEN Raised(cut.err, mat.reads, checked)
        ELSE Returned(cut.block, mat.reads, checked)

\* __getitem__ from the first _check_indices on (args is not empty). The test
\* len(args) > 2 is the elif of len(args) > 1.
GetItemSelected(inf, store, handle, args) ==
    LET row == CheckIndices(args[1])
        hasCol == Len(args) > 1 /\ args[2].kind # "none"
        col == IF hasCol THEN CheckIndices(args[2])
               ELSE [err |-> "none", sel |-> NoneSel]
        checked == IF hasCol THEN 2 ELSE 1
        tooMany == IF Len(args) > 1 THEN FALSE ELSE Len(args) > 2
    IN  IF row.err # "none" THEN Raised(row.err, 0, 1)
        ELSE IF col.err # "none" THEN Raised(col.err, 0, checked)
        ELSE IF tooMany THEN Raised("TooManySelectors", 0, checked)
        ELSE IF inf.format = "csr_matrix"
        THEN GetItemCsr(inf, store, handle, row.sel, col.sel, checked)
        ELSE IF inf.format = "csc_matrix"
        THEN GetItemCsc(inf, store, handle, row.sel, col.sel, checked)
        ELSE Raised("UnknownMatrixType", 0, checked)

\* __getitem__ taking an empty tuple to select every row.
GetItemEmptyMeansAll(inf, store, handle, args) ==
    IF Len(args) = 0
    THEN GetItemSelected(inf, store, handle, <<ListSel(Range(0, inf.shape[1], 1))>>)
    ELSE GetItemSelected(inf, store, handle, args)

\* __getitem__(args).
GetItemOutcome(inf, store, handle, args) ==
    IF Len(args) = 0
    THEN Raised("ArgsEmpty", 0, 0)
    ELSE GetItemSelected(inf, store, handle, args)

NoOutcome == [status |-> "idle", err |-> "none", block |-> NoBlock,
              reads |-> 0, normalized |-> 0]
NoRes == [status |-> "idle", args |-> <<>>, handle |-> "unset", err |-> "none",
          block |-> NoBlock, reads |-> 0, normalized |-> 0]
\* pinned: on (a call is to be remembered), args (its selectors), set (it has
\* been made, out is its outcome), between (a call with other selectors
\* followed it), again (after that, the selectors were used once more).
NoPin == [on |-> FALSE, set |-> FALSE, between |-> FALSE, again |-> FALSE,
          args |-> <<>>, out |-> NoOutcome]

CallRecord(args, handle, out) ==
    [status |-> out.status, args |-> args, handle |-> handle, err |-> out.err,
     block |-> out.block, reads |-> out.reads, normalized |-> out.normalized]

\* The first call made with the pinned selectors on an open array is kept.
PinAfter(pin, args, handle, out) ==
    IF ~pin.on \/ handle # "open" THEN pin
    ELSE IF ~pin.set
    THEN IF pin.args = args THEN [pin EXCEPT !.set = TRUE, !.out = out] ELSE pin
    ELSE IF pin.args # args THEN [pin EXCEPT !.between = TRUE]
    ELSE IF pin.between THEN [pin EXCEPT !.again = TRUE]
    ELSE pin

\* A __getitem__ that records the shape of what it returned in _dataset_info.
GetItemStepKeepingShape(args) ==
    /\ pc = "ready"
    /\ res.status = "idle"
    /\ LET out == GetItemOutcome(info, file.store, h5file, args)
       IN  /\ res' = CallRecord(args, h5file, out)
           /\ pinned' = PinAfter(pinned, args, h5file, out)
           /\ info' = IF out.status = "returned"
                      THEN [info EXCEPT !.shape = out.block.shape] ELSE info
    /\ UNCHANGED <<file, h5file, pc, initErr, dels, releases, delErr>>

GetItemStep(args) ==
    /\ pc = "ready"
    /\ res.status = "idle"
    /\ LET out == GetItemOutcome(info, file.store, h5file, args)
       IN  /\ res' = CallRecord(args, h5file, out)
           /\ pinned' = PinAfter(pinned, args, h5file, out)
    /\ UNCHANGED <<file, h5file, info, pc, initErr, dels, releases, delErr>>

GetItem == \E args \in ArgTuples : GetItemStep(args)

\* The caller takes the returned matrix, or the raised error.
Return ==
    /\ res.status # "idle"
    /\ res' = NoRes
    /\ UNCHANGED <<file, h5file, info, pc, initErr, dels, releases, delErr, pinned>>

\* ------------------------------------------------------------------------
\* __del__

\* A close() that refuses a handle already closed.
H5CloseOnce(handle) ==
    [handle |-> "closed", err |-> IF handle = "closed" THEN "ValueError" ELSE "none"]

\* h5py's File.close(): closes an open file, does nothing to a closed one.
H5Close(handle) == [handle |-> "closed", err |-> "none"]

\* __del__: self._h5file.close(); the attribute lookup fails when __init__
\* raised before assigning it.
Del ==
    /\ pc \in {"ready", "failed"}
    /\ dels < MaxDels
    /\ dels' = dels + 1
    /\ IF h5file = "unset"
       THEN /\ delErr' = "AttributeError"
            /\ UNCHANGED <<h5file, releases>>
       ELSE LET c == H5Close(h5file)
            IN  /\ h5file' = c.handle
                /\ delErr' = c.err
                /\ releases' = IF h5file = "open" /\ c.handle = "closed"
                               THEN releases + 1 ELSE releases
    /\ UNCHANGED <<file, info, pc, initErr, res, pinned>>

\* ------------------------------------------------------------------------
\* Specifications.

Init ==
    /\ file \in Files
    /\ h5file = "unset"
    /\ info = NoInfo
    /\ pc = "new"
    /\ initErr = "none"
    /\ res = NoRes
    /\ dels = 0
    /\ releases = 0
    /\ delErr = "none"
    /\ pinned = NoPin

Next == Construct \/ GetItem \/ Return \/ Del

Spec == Init /\ [][Next]_vars

\* The extraction calls of an open array alone, with one call pinned: a few
\* matrices, the selectors to pin drawn from the ranges [0, b).
HistMatrices ==
    {PatternMatrix([r \in RowIdx |-> "full"]),
     PatternMatrix([r \in RowIdx |-> IF r % 2 = 0 THEN "even" ELSE "odd"])}

PinArgs ==
    {<<>>}
    \cup {<<p>> : p \in PrefixSelections(NRows)}
    \cup {<<p, s>> : p \in PrefixSelections(NRows),
                     s \in PrefixSelections(NCols) \cup {NoneSel}}

InitHist ==
    /\ file \in {f \in Files : f.kind \in SparseFormats /\ f.ref \in HistMatrices}
    /\ h5file = "unset"
    /\ info = NoInfo
    /\ pc = "new"
    /\ initErr = "none"
    /\ res = NoRes
    /\ dels = 0
    /\ releases = 0
    /\ delErr = "none"
    /\ pinned \in {[NoPin EXCEPT !.on = TRUE, !.args = a] : a \in PinArgs}

NextHist == Construct \/ GetItem \/ Return

SpecHist == InitHist /\ [][NextHist]_vars

\* ------------------------------------------------------------------------
\* Properties.

Called == res.status # "idle"
CallStep == res.status = "idle" /\ res'.status # "idle"
RowSel == res.args[1].idx
ColSel == res.args[2].idx
ColSupplied == Len(res.args) >= 2 /\ res.args[2].kind # "none"
AllCols == Range(0, file.shape[2], 1)
SameOutcome(a, b) ==
    a.status = b.status /\ a.err = b.err /\ a.block = b.block

\* C1: on an open array of either layout, a call with a row selection P and a
\* column selection S, both within bounds, returns a matrix of shape
\* (|P|, |S|) whose entry (i, j) is the reference matrix's entry (P[i], S[j]).
C1_SliceMatchesReference ==
    (/\ Called
     /\ res.handle = "open"
     /\ Len(res.args) = 2
     /\ ColSupplied
     /\ InBounds(RowSel, file.shape[1])
     /\ InBounds(ColSel, file.shape[2]))
    => /\ res.status = "returned"
       /\ res.block.shape = <<Len(RowSel), Len(ColSel)>>
       /\ ToDense(res.block) = RefSlice(file.ref, RowSel, ColSel)

\* A column-compressed array has returned rows 0, 1 of the strided columns
\* 0, 2, among them a stored and an unstored entry.
C1_Witness ==
    /\ res.status = "returned"
    /\ info.format = "csc_matrix"
    /\ res.handle = "open"
    /\ res.args = <<ListSel(<<0, 1>>), ListSel(<<0, 2>>)>>
    /\ ToDense(res.block)[1][1] # 0
    /\ ToDense(res.block)[2][2] = 0

\* C2: on an open array of either layout, a call whose column selection is
\* absent ((P,) or (P, None)) with P within bounds returns every column: the
\* matrix has shape (|P|, number of columns) and equals the reference matrix
\* restricted to the rows P.
C2_AbsentColumnsSelectAll ==
    (/\ Called
     /\ res.handle = "open"
     /\ Len(res.args) \in {1, 2}
     /\ ~ColSupplied
     /\ InBounds(RowSel, file.shape[1]))
    => /\ res.status = "returned"
       /\ res.block.shape = <<Len(RowSel), file.shape[2]>>
       /\ ToDense(res.block) = RefSlice(file.ref, RowSel, AllCols)

\* C3: a call with three or more selectors raises TooManySelectors and
\* returns no matrix.
C3_TooManySelectorsRaised ==
    (Called /\ Len(res.args) >= 3)
    => (res.status = "raised" /\ res.err = "TooManySelectors")

\* C4: on an open array, a call with a row index or a column index at or
\* beyond the axis extent raises IndexOutOfBounds, and nothing has been read
\* from the file when it is raised.
C4_OutOfBoundsBeforeAnyRead ==
    (/\ Called
     /\ res.handle = "open"
     /\ Len(res.args) \in {1, 2}
     /\ \/ ~InBounds(RowSel, file.shape[1])
        \/ ColSupplied /\ ~InBounds(ColSel, file.shape[2]))
    => /\ res.status = "raised"
       /\ res.err = "IndexOutOfBounds"
       /\ res.reads = 0

\* C5: a group whose inferred layout is neither csr_matrix nor csc_matrix makes
\* the constructor raise; a constructed array has mat_format csr_matrix or
\* csc_matrix, the format never changes afterwards, and no extraction ends in
\* the "unknown matrix type" error.
C5_LayoutFixedAtConstruction ==
    /\ [](pc = "ready" => info.format \in {"csr_matrix", "csc_matrix"})
    /\ []((pc # "new" /\ file.kind \notin {"csr_matrix", "csc_matrix"})
            => (pc = "failed" /\ initErr # "none"))
    /\ [](res.err # "UnknownMatrixType")
    /\ [][pc = "ready" => (pc' = "ready" /\ info'.format = info.format)]_vars

\* The constructor has refused a dense dataset.
C5_Witness ==
    /\ pc = "failed"
    /\ file.kind = "dense"
    /\ info.format = "dense"
    /\ initErr = "ValueError"

\* C6: a handle opened at construction is closed by the first __del__ and
\* that is the only release: every __del__ leaves it closed and raises
\* nothing, a closed handle is never open again, and __del__ changes nothing
\* but the handle.
C6_ReleasedOnceIdempotent ==
    /\ [](releases <= 1)
    /\ []((dels >= 1 /\ h5file # "unset")
            => (h5file = "closed" /\ releases = 1 /\ delErr = "none"))
    /\ [][h5file = "closed" => h5file' = "closed"]_vars
    /\ [][dels' # dels => UNCHANGED <<file, info, pc, res>>]_vars

\* __del__ has run twice on a constructed array.
C6_Witness ==
    /\ pc = "ready"
    /\ dels >= 2
    /\ h5file = "closed"
    /\ releases = 1

\* C7: an extraction made after the handle was released raises UseAfterClose,
\* reads nothing and returns no matrix.
C7_UseAfterCloseRaised ==
    (Called /\ res.handle = "closed")
    => /\ res.status = "raised"
       /\ res.err = "UseAfterClose"
       /\ res.reads = 0

\* C8: on an open array, a call made with the selectors of an earlier call
\* has the earlier call's outcome, whatever calls were made in between, and a
\* call leaves the file, the handle and shape, dtype and format as they were.
C8_ExtractionRepeatable ==
    /\ []((/\ pinned.set
           /\ Called
           /\ res.handle = "open"
           /\ res.args = pinned.args)
            => SameOutcome(res, pinned.out))
    /\ [][CallStep => UNCHANGED <<file, h5file, info>>]_vars

\* The pinned selectors (rows 0, 1 and columns 0, 1) have been used again
\* after a call with other selectors, and a matrix was returned.
C8_Witness ==
    /\ pinned.again
    /\ res.status = "returned"
    /\ res.args = pinned.args
    /\ res.args = <<ListSel(<<0, 1>>), ListSel(<<0, 1>>)>>

\* C9: a call with an empty selector tuple raises "Arguments must contain one
\* slice" with no selection normalized and nothing read, for both layouts, and
\* leaves the file, the handle and the dataset info as they were.
C9_EmptyTupleRejected ==
    /\ []((Called /\ res.args = <<>>)
            => /\ res.status = "raised"
               /\ res.err = "ArgsEmpty"
               /\ res.normalized = 0
               /\ res.reads = 0)
    /\ [][(CallStep /\ res'.args = <<>>) => UNCHANGED <<file, h5file, info, pc>>]_vars

\* An open column-compressed array has been called with ().
C9_Witness ==
    /\ Called
    /\ res.args = <<>>
    /\ res.handle = "open"
    /\ info.format = "csc_matrix"

\* C10: once the object of a failed construction has been torn down, no
\* handle that construction opened is still open, and __del__ raised nothing.
C10_FailedConstructionTornDownCleanly ==
    (pc = "failed" /\ dels >= 1)
    => (h5file # "open" /\ delErr = "none")

====
